---- MODULE Spec2Model ----
(***************************************************************************)
(* Console / notification coordination of the si47xx radio firmware:       *)
(* the Command Queue (EVENT_CHANNEL), the Notification Bus                 *)
(* (NOTIFICATION_CHANNEL), the Prompt/Status Model (PromptStatus) and the  *)
(* console task (my_task).                                                 *)
(*                                                                         *)
(* Text is a sequence of byte values.  An f32 frequency is held as its     *)
(* decimal expansion to one fractional digit, [int |-> digits, frac |-> d],*)
(* the domain on which "{:.1}" prints the value back.                      *)
(***************************************************************************)
EXTENDS Integers, Sequences, FiniteSets, TLC

\* ------------------------------------------------------------------------
\* Bounds of the model
\* ------------------------------------------------------------------------
\* notifications the test publisher injects in one run
MaxNotify == 3
\* intents the queue clients offer in one run
MaxSends == 4
\* publish calls of the bus client in one run
MaxPublish == 6
\* bytes the operator sends in a short session
MaxBytes == 2
\* intents offered to the control loop in one run
MaxIntents == 3
\* writes through the global writer in one run
MaxWrites == 4
\* notifications a second publisher adds, and intents the console forwards,
\* while main and my_task run
MaxSecond == 2

\* ------------------------------------------------------------------------
\* Program constants
\* ------------------------------------------------------------------------
DEL == 127
BACKSPACE == 8
CR == 13
SPACE == 32
\* heapless::String<64>
PROMPT_CAP == 64
\* COMMAND_BUFFER: [u8; 40]
COMMAND_CAP == 40
\* Channel<_, SystemEvent, 1>
EVENT_CAP == 1
\* PubSubChannel<_, SystemNotify, 4, 4, 2>
NOTIFY_CAP == 4
NOTIFY_SUBS == 4
NOTIFY_PUBS == 2
\* u8::MAX
U8_MAX == 255

\* ------------------------------------------------------------------------
\* Text
\* ------------------------------------------------------------------------
ESC == 27
RESET == <<ESC, 91, 48, 109>>
BOLD_GREEN == <<ESC, 91, 49, 59, 51, 50, 109>>
BOLD_YELLOW == <<ESC, 91, 49, 59, 51, 51, 109>>
BOLD_BLUE == <<ESC, 91, 49, 59, 51, 52, 109>>

\* ASCII of one decimal digit
DigitChar(d) == 48 + d

DigitChars(ds) == [i \in 1..Len(ds) |-> DigitChar(ds[i])]

IsPrefix(s, t) == Len(s) <= Len(t) /\ SubSeq(t, 1, Len(s)) = s

\* s occurs in t as a contiguous run of bytes
Contains(t, s) ==
    \E i \in 0..(Len(t) - Len(s)) : SubSeq(t, i + 1, i + Len(s)) = s

RECURSIVE Concat(_)
Concat(ss) == IF ss = <<>> THEN <<>> ELSE Head(ss) \o Concat(Tail(ss))

\* ------------------------------------------------------------------------
\* RadioMode and its derived Debug
\* ------------------------------------------------------------------------
RadioMode == {"FM", "AM", "Off"}

RadioModeDebug(mode) ==
    CASE mode = "FM" -> <<70, 77>>
      [] mode = "AM" -> <<65, 77>>
      [] mode = "Off" -> <<79, 102, 102>>

\* ------------------------------------------------------------------------
\* f32 values of the model and "{:.1}"
\* ------------------------------------------------------------------------
F32(int, frac) == [int |-> int, frac |-> frac]
F32_ZERO == F32(<<0>>, 0)

\* The write_str calls "{:.1}" makes: the integer digits, ".", the
\* fractional digit; a value below one is written as "0." and the digit.
FmtF32Parts(f) ==
    IF f.int = <<0>>
    THEN << <<48, 46>>, <<DigitChar(f.frac)>> >>
    ELSE << DigitChars(f.int), <<46>>, <<DigitChar(f.frac)>> >>

\* ------------------------------------------------------------------------
\* PromptStatus
\* ------------------------------------------------------------------------
\* heapless::String<64>::push_str: all of s or nothing
PushStrNoCapacityCheck(buf, s) == [ok |-> TRUE, buf |-> buf \o s]

PushStr(buf, s) ==
    IF Len(buf) + Len(s) > PROMPT_CAP
    THEN [ok |-> FALSE, buf |-> buf]
    ELSE [ok |-> TRUE, buf |-> buf \o s]

\* write!: one write_str per piece, stopping at the first error
RECURSIVE WriteFmt(_, _)
WriteFmt(buf, pieces) ==
    IF pieces = <<>> THEN buf
    ELSE LET r == PushStr(buf, Head(pieces))
         IN IF r.ok THEN WriteFmt(r.buf, Tail(pieces)) ELSE r.buf

\* the pieces of the prompt's format string and arguments, in order
PromptPieces(mode, frequency) ==
    << BOLD_GREEN, <<114, 97, 100, 105, 111, 45, 99, 108, 105, 32>>,
       BOLD_BLUE, RadioModeDebug(mode), <<SPACE>>, BOLD_YELLOW >>
    \o FmtF32Parts(frequency)
    \o << <<SPACE, 77, 72, 122>>, BOLD_GREEN, <<41, 62>>, RESET, <<SPACE>> >>

PromptStatus_new == [frequency |-> F32_ZERO, mode |-> "FM", prompt |-> <<>>]

get_prompt_no_clear(ps) ==
    [ps EXCEPT !.prompt = WriteFmt(ps.prompt, PromptPieces(ps.mode, ps.frequency))]

\* clears the buffer, writes the prompt into it; the buffer is the result
get_prompt(ps) ==
    [ps EXCEPT !.prompt = WriteFmt(<<>>, PromptPieces(ps.mode, ps.frequency))]

set_mode(ps, mode) == [ps EXCEPT !.mode = mode]

set_frequency(ps, frequency) == [ps EXCEPT !.frequency = frequency]

\* ------------------------------------------------------------------------
\* SystemEvent (Intent) and SystemNotify (Notification)
\* ------------------------------------------------------------------------
SystemEventKinds ==
    {"RadioFmOn", "RadioAmOn", "RadioOff", "RadioSeekUp", "RadioSeekDown",
     "RadioSetFrequency", "RadioMute", "RadioUnmute", "RadioVolumeUp",
     "RadioVolumeDown", "RadioVolumeSet"}

\* a variant without payload carries the default level and frequency
SystemEvent(kind) == [kind |-> kind, level |-> 0, frequency |-> F32_ZERO]
RadioVolumeSet(level) == [SystemEvent("RadioVolumeSet") EXCEPT !.level = level]
RadioSetFrequency(f) == [SystemEvent("RadioSetFrequency") EXCEPT !.frequency = f]

SystemNotifyKinds ==
    {"TuneStatus", "RevisionInfo", "RadioFmOn", "RadioAmOn", "RadioOff",
     "RadioMute", "RadioUnmute", "VolumeChanged"}

SystemNotify(kind) == [kind |-> kind, level |-> 0, frequency |-> F32_ZERO]
TuneStatus(f) == [SystemNotify("TuneStatus") EXCEPT !.frequency = f]
VolumeChanged(level) == [SystemNotify("VolumeChanged") EXCEPT !.level = level]

\* ------------------------------------------------------------------------
\* Command Queue: Channel<ThreadModeRawMutex, SystemEvent, 1>
\* ------------------------------------------------------------------------
\* Channel::try_send without the capacity test
ChannelTrySendUnbounded(ch, ev) == [result |-> "Ok", ch |-> Append(ch, ev)]

\* Channel::try_send: Err(Full) on a full channel, the value handed back
ChannelTrySend(ch, ev) ==
    IF Len(ch) >= EVENT_CAP
    THEN [result |-> "Full", ch |-> ch]
    ELSE [result |-> "Ok", ch |-> Append(ch, ev)]

\* try_send(state).ok(): the Result is turned into an Option and dropped;
\* the function returns ()
event_try_send(ch, ev) ==
    LET r == ChannelTrySend(ch, ev)
    IN [ch |-> r.ch, ret |-> "unit"]

\* a send that gives up on a full channel
event_send_gives_up(ch, ev) == [ready |-> TRUE, ch |-> ChannelTrySend(ch, ev).ch]

\* one poll of EVENT_CHANNEL.send(state): Ready once the value is in
event_send(ch, ev) ==
    LET r == ChannelTrySend(ch, ev)
    IN [ready |-> r.result = "Ok", ch |-> r.ch]

\* one poll of EVENT_CHANNEL.receive(): Pending on an empty channel
event_receive_keeps_slot(ch) == [ready |-> ch # <<>>, ch |-> ch]

event_receive(ch) ==
    [ready |-> ch # <<>>, ch |-> IF ch = <<>> THEN ch ELSE Tail(ch)]

\* ------------------------------------------------------------------------
\* Notification Bus: PubSubChannel<ThreadModeRawMutex, SystemNotify, 4, 4, 2>
\* ------------------------------------------------------------------------
PubSubChannel_new ==
    [queue |-> <<>>, next_message_id |-> 0,
     subscriber_count |-> 0, publisher_count |-> 0]

\* a subscriber handed out without being counted
NotifySubscriberUncounted(s) ==
    [ok |-> TRUE, s |-> s, next_message_next_id |-> s.next_message_id]

\* PubSubChannel::subscriber: a cursor at the next message to be published
notify_subscriber(s) ==
    IF s.subscriber_count >= NOTIFY_SUBS
    THEN [ok |-> FALSE, s |-> s, next_message_next_id |-> 0]
    ELSE [ok |-> TRUE,
          s |-> [s EXCEPT !.subscriber_count = @ + 1],
          next_message_next_id |-> s.next_message_id]

\* PubSubChannel::publisher
notify_publisher(s) ==
    IF s.publisher_count >= NOTIFY_PUBS
    THEN [ok |-> FALSE, s |-> s]
    ELSE [ok |-> TRUE, s |-> [s EXCEPT !.publisher_count = @ + 1]]

\* publish_immediate: drops the oldest entry of a full queue
PublishImmediate(s, m) ==
    IF s.subscriber_count = 0 THEN [ok |-> TRUE, s |-> s]
    ELSE LET q == IF Len(s.queue) >= NOTIFY_CAP THEN Tail(s.queue) ELSE s.queue
         IN [ok |-> TRUE,
             s |-> [s EXCEPT !.queue = Append(q, [msg |-> m, count |-> s.subscriber_count]),
                             !.next_message_id = @ + 1]]

\* try_publish without the no-subscriber shortcut
TryPublishKeepsUnheard(s, m) ==
    IF Len(s.queue) >= NOTIFY_CAP THEN [ok |-> FALSE, s |-> s]
    ELSE [ok |-> TRUE,
          s |-> [s EXCEPT !.queue = Append(@, [msg |-> m, count |-> s.subscriber_count]),
                          !.next_message_id = @ + 1]]

\* one poll of Publisher::publish(message): PubSubState::try_publish.
\* With no subscriber the message is dropped and the call is done; on a full
\* queue the message is handed back and the publisher waits.
TryPublish(s, m) ==
    IF s.subscriber_count = 0 THEN [ok |-> TRUE, s |-> s]
    ELSE IF Len(s.queue) >= NOTIFY_CAP THEN [ok |-> FALSE, s |-> s]
    ELSE [ok |-> TRUE,
          s |-> [s EXCEPT !.queue = Append(@, [msg |-> m, count |-> s.subscriber_count]),
                          !.next_message_id = @ + 1]]

\* get_message that leaves a fully read entry in the queue
GetMessageKeepsEntry(s, id) ==
    LET start_id == s.next_message_id - Len(s.queue)
        index == id - start_id
    IN IF id < start_id
       THEN [kind |-> "Lagged", amount |-> start_id - id, s |-> s,
             msg |-> SystemNotify("RadioMute")]
       ELSE IF index >= Len(s.queue)
       THEN [kind |-> "None", amount |-> 0, s |-> s,
             msg |-> SystemNotify("RadioMute")]
       ELSE LET item == s.queue[index + 1]
            IN [kind |-> "Message", amount |-> 0, msg |-> item.msg,
                s |-> [s EXCEPT !.queue[index + 1].count = item.count - 1]]

\* PubSubState::get_message for the cursor id
GetMessage(s, id) ==
    LET start_id == s.next_message_id - Len(s.queue)
        index == id - start_id
    IN IF id < start_id
       THEN [kind |-> "Lagged", amount |-> start_id - id, s |-> s,
             msg |-> SystemNotify("RadioMute")]
       ELSE IF index >= Len(s.queue)
       THEN [kind |-> "None", amount |-> 0, s |-> s,
             msg |-> SystemNotify("RadioMute")]
       ELSE LET item == s.queue[index + 1]
                left == item.count - 1
            IN [kind |-> "Message", amount |-> 0, msg |-> item.msg,
                s |-> IF index = 0 /\ left = 0
                      THEN [s EXCEPT !.queue = Tail(@)]
                      ELSE [s EXCEPT !.queue[index + 1].count = left]]

\* one poll of Subscriber::next_message_pure: a Lagged result moves the
\* cursor forward by the amount and the wait goes on
next_message_pure(s, id) ==
    LET first == GetMessage(s, id)
        at == IF first.kind = "Lagged" THEN id + first.amount ELSE id
        r == IF first.kind = "Lagged" THEN GetMessage(s, at) ELSE first
    IN [ready |-> r.kind = "Message", msg |-> r.msg, s |-> r.s,
        lagged |-> first.kind = "Lagged",
        next_message_next_id |-> IF r.kind = "Message" THEN at + 1 ELSE at]

\* ------------------------------------------------------------------------
\* The global console writer: SerialPort(Mutex<RefCell<Option<UarteTx>>>)
\* ------------------------------------------------------------------------
LF == 10

\* a write that hands on the error of blocking_write
SerialPort_write_propagates(w, buf, sent) ==
    LET held == [w EXCEPT !.cs = @ + 1]
        body == IF held.tx = "Some"
                THEN [held EXCEPT !.wire = @ \o SubSeq(buf, 1, sent)]
                ELSE held
    IN [w |-> [body EXCEPT !.cs = @ - 1],
        ret |-> [ok |-> held.tx = "None" \/ sent = Len(buf), n |-> Len(buf)]]

\* SerialPort::write inside critical_section::with: with a TX installed
\* blocking_write(buf) puts `sent` bytes on the wire (all of buf when it
\* succeeds) and its Result is dropped; the call returns Ok(buf.len())
SerialPort_write(w, buf, sent) ==
    LET held == [w EXCEPT !.cs = @ + 1]
        body == IF held.tx = "Some"
                THEN [held EXCEPT !.wire = @ \o SubSeq(buf, 1, sent)]
                ELSE held
    IN [w |-> [body EXCEPT !.cs = @ - 1],
        ret |-> [ok |-> TRUE, n |-> Len(buf)]]

\* SerialPort::init inside critical_section::with: the TX is stored, then
\* self.write(b"\n").ok()
SerialPort_init(w, sent) ==
    LET held == [w EXCEPT !.cs = @ + 1, !.tx = "Some"]
        r == SerialPort_write(held, <<LF>>, sent)
    IN [r.w EXCEPT !.cs = @ - 1]

\* ------------------------------------------------------------------------
\* State
\* ------------------------------------------------------------------------
VARIABLES
    EVENT_CHANNEL,          \* the Command Queue's slot
    sender,                 \* a task inside event_send
    receiver,               \* the task inside event_receive
    qh,                     \* what the queue's clients observed
    NOTIFICATION_CHANNEL,   \* the Notification Bus
    subscriber,             \* the console's Subscriber handle
    publisher,              \* the task inside Publisher::publish
    bh,                     \* what the bus's clients observed
    pc,                     \* my_task's position
    prompt_status,          \* my_task's PromptStatus
    cli,                    \* the line editor: command buffer and prompt
    rx,                     \* the UARTE receiver
    buffer,                 \* my_task's one-byte read buffer
    typing,                 \* bytes the operator has yet to send
    budget,                 \* notifications yet to be injected
    ch,                     \* what the console's clients observed
    main,                   \* main's position and locals
    mh,                     \* what was observed of the control loop
    WRITER_OUT,             \* the global console writer
    wh                      \* what the writer's clients observed

qvars == <<EVENT_CHANNEL, sender, receiver, qh>>
bvars == <<NOTIFICATION_CHANNEL, subscriber, publisher, bh>>
cvars == <<pc, prompt_status, cli, rx, buffer, typing, budget, ch>>
xvars == <<main, mh, WRITER_OUT, wh>>
vars == <<EVENT_CHANNEL, sender, receiver, qh, NOTIFICATION_CHANNEL,
          subscriber, publisher, bh, pc, prompt_status, cli, rx, buffer,
          typing, budget, ch, main, mh, WRITER_OUT, wh>>

Range(s) == {s[i] : i \in 1..Len(s)}

InitQueue ==
    /\ EVENT_CHANNEL = <<>>
    /\ sender = [waiting |-> FALSE, item |-> SystemEvent("RadioMute")]
    /\ receiver = "running"
    /\ qh = [offered |-> 0, accepted |-> <<>>, received |-> <<>>,
             dropped |-> <<>>, returned |-> <<>>, waited |-> <<>>,
             burst |-> <<>>,
             from_empty |-> FALSE, try_ret |-> "none"]

InitBus ==
    /\ NOTIFICATION_CHANNEL = PubSubChannel_new
    /\ subscriber = [registered |-> FALSE, next_message_next_id |-> 0]
    /\ publisher = [registered |-> FALSE, waiting |-> FALSE,
                    message |-> SystemNotify("RadioMute")]
    /\ bh = [calls |-> 0, completed |-> 0, sent |-> <<>>, read |-> <<>>,
             calls_at_first_read |-> 0, sub_at |-> 0, lagged |-> FALSE,
             outcome |-> "none", pre |-> [subs |-> 0, len |-> 0]]

\* main after `spawner.spawn(cli::my_task(rx))`, inside yield_now
InitMain ==
    /\ main = [pc |-> "yield55", event |-> SystemEvent("RadioMute"),
               next |-> "yield55"]
    /\ mh = [consumed |-> 0, driver |-> "none", published |-> FALSE,
             startup |-> 0]

\* WRITER_OUT: SerialPort(Mutex::new(RefCell::new(None)))
InitWriter ==
    /\ WRITER_OUT = [tx |-> "None", cs |-> 0, wire |-> <<>>]
    /\ wh = [writes |-> 0, at_init |-> 0, ret |-> [ok |-> TRUE, n |-> 0],
             len |-> 0, fell_short |-> FALSE]

\* a panic (panic_probe) stops the whole firmware
Halted == main.pc = "panicked" \/ pc = "panicked"

\* ------------------------------------------------------------------------
\* Clients of the Command Queue
\* ------------------------------------------------------------------------
\* the k-th intent offered carries k, so that each offer can be told apart
Offer(k) == {RadioVolumeSet(k), RadioSetFrequency(F32(<<k>>, 0))}

Serial(ev) == IF ev.kind = "RadioVolumeSet" THEN ev.level ELSE ev.frequency.int[1]

\* a producer calls event_try_send(ev)
TestTrySend ==
    /\ qh.offered < MaxSends
    /\ \E ev \in Offer(qh.offered + 1) :
         LET r == event_try_send(EVENT_CHANNEL, ev)
             took == r.ch # EVENT_CHANNEL
         IN /\ EVENT_CHANNEL' = r.ch
            /\ qh' = [qh EXCEPT
                 !.offered = @ + 1,
                 !.accepted = IF took THEN Append(@, ev) ELSE @,
                 !.dropped = IF took THEN @ ELSE Append(@, ev),
                 !.burst = IF EVENT_CHANNEL = <<>> THEN <<ev>> ELSE Append(@, ev),
                 !.from_empty = IF EVENT_CHANNEL = <<>> THEN TRUE ELSE @,
                 !.try_ret = r.ret]
    /\ UNCHANGED <<xvars, sender, receiver, bvars, cvars>>

\* a producer calls event_send(ev).await: first poll
TestSend ==
    /\ qh.offered < MaxSends
    /\ ~sender.waiting
    /\ \E ev \in Offer(qh.offered + 1) :
         LET r == event_send(EVENT_CHANNEL, ev)
             took == r.ch # EVENT_CHANNEL
         IN /\ EVENT_CHANNEL' = r.ch
            /\ sender' = [waiting |-> ~r.ready, item |-> ev]
            /\ qh' = [qh EXCEPT
                 !.offered = @ + 1,
                 !.accepted = IF took THEN Append(@, ev) ELSE @,
                 !.returned = IF r.ready THEN Append(@, ev) ELSE @,
                 !.waited = IF r.ready THEN @ ELSE Append(@, ev),
                 !.burst = IF took THEN <<>> ELSE @,
                 !.from_empty = IF took THEN FALSE ELSE @]
    /\ UNCHANGED <<xvars, receiver, bvars, cvars>>

\* the suspended sender is woken by a receive and polled again
TestSendResume ==
    /\ sender.waiting
    /\ LET r == event_send(EVENT_CHANNEL, sender.item)
           took == r.ch # EVENT_CHANNEL
       IN /\ r.ready
          /\ EVENT_CHANNEL' = r.ch
          /\ sender' = [sender EXCEPT !.waiting = FALSE]
          /\ qh' = [qh EXCEPT
               !.accepted = IF took THEN Append(@, sender.item) ELSE @,
               !.returned = Append(@, sender.item),
               !.burst = <<>>,
               !.from_empty = FALSE]
    /\ UNCHANGED <<xvars, receiver, bvars, cvars>>

\* the consumer calls event_receive().await: first poll
TestReceive ==
    /\ receiver = "running"
    /\ LET r == event_receive(EVENT_CHANNEL)
       IN /\ EVENT_CHANNEL' = r.ch
          /\ receiver' = IF r.ready THEN "running" ELSE "suspended"
          /\ qh' = IF r.ready
                   THEN [qh EXCEPT !.received = Append(@, Head(EVENT_CHANNEL)),
                                   !.burst = <<>>, !.from_empty = FALSE]
                   ELSE qh
    /\ UNCHANGED <<xvars, sender, bvars, cvars>>

\* the suspended consumer is woken by a send and polled again
TestReceiveResume ==
    /\ receiver = "suspended"
    /\ LET r == event_receive(EVENT_CHANNEL)
       IN /\ r.ready
          /\ EVENT_CHANNEL' = r.ch
          /\ receiver' = "running"
          /\ qh' = [qh EXCEPT !.received = Append(@, Head(EVENT_CHANNEL)),
                              !.burst = <<>>, !.from_empty = FALSE]
    /\ UNCHANGED <<xvars, sender, bvars, cvars>>

\* the intents the console forwards (cli.rs, the processor closure)
ControlIntents ==
    {SystemEvent("RadioVolumeUp"), SystemEvent("RadioSeekUp"),
     SystemEvent("RadioAmOn"), RadioSetFrequency(F32(<<9, 9>>, 0))}

\* a producer calls event_try_send with an intent of the console's
TestIntent ==
    /\ qh.offered < MaxIntents
    /\ \E ev \in ControlIntents :
         LET r == event_try_send(EVENT_CHANNEL, ev)
         IN /\ EVENT_CHANNEL' = r.ch
            /\ qh' = [qh EXCEPT !.offered = @ + 1, !.try_ret = r.ret]
    /\ UNCHANGED <<xvars, sender, receiver, bvars, cvars>>

\* the processor closure's event_try_send(SystemEvent::RadioSeekUp), as for
\* a `tune up` line, at any time
TestSeekUp ==
    /\ qh.offered < MaxSecond
    /\ LET r == event_try_send(EVENT_CHANNEL, SystemEvent("RadioSeekUp"))
       IN /\ EVENT_CHANNEL' = r.ch
          /\ qh' = [qh EXCEPT !.offered = @ + 1, !.try_ret = r.ret]
    /\ UNCHANGED <<xvars, sender, receiver, bvars, cvars>>

\* ------------------------------------------------------------------------
\* Clients of the global writer
\* ------------------------------------------------------------------------
\* the k-th write carries bytes that tell it apart
WriteBufs(k) == {<<>>, <<64 + k>>, <<64 + k, 64 + k>>}

\* console::stdout_init(tx), once at startup
TestStdoutInit ==
    /\ WRITER_OUT.tx = "None"
    /\ \E sent \in 0..1 :
         /\ WRITER_OUT' = SerialPort_init(WRITER_OUT, sent)
         /\ wh' = [wh EXCEPT !.at_init = wh.writes,
                             !.fell_short = @ \/ sent < 1]
    /\ UNCHANGED <<main, mh, qvars, bvars, cvars>>

\* StdOut::write(buf) of embedded_io::Write: WRITER_OUT.write(buf)
TestWrite ==
    /\ wh.writes < MaxWrites
    /\ \E buf \in WriteBufs(wh.writes + 1) :
         \E sent \in 0..Len(buf) :
            LET r == SerialPort_write(WRITER_OUT, buf, sent)
            IN /\ WRITER_OUT' = r.w
               /\ wh' = [wh EXCEPT
                    !.writes = @ + 1, !.ret = r.ret, !.len = Len(buf),
                    !.fell_short = @ \/ (WRITER_OUT.tx = "Some" /\ sent < Len(buf))]
    /\ UNCHANGED <<main, mh, qvars, bvars, cvars>>

\* ------------------------------------------------------------------------
\* Clients of the Notification Bus
\* ------------------------------------------------------------------------
Notice(k) == {VolumeChanged(k), TuneStatus(F32(<<k>>, 0))}

\* notify_subscriber().unwrap()
TestSubscribe ==
    /\ ~subscriber.registered
    /\ LET r == notify_subscriber(NOTIFICATION_CHANNEL)
       IN /\ r.ok
          /\ NOTIFICATION_CHANNEL' = r.s
          /\ subscriber' = [registered |-> TRUE,
                            next_message_next_id |-> r.next_message_next_id]
    /\ bh' = [bh EXCEPT !.sub_at = bh.calls]
    /\ UNCHANGED <<xvars, publisher, qvars, cvars>>

\* notify_publisher().unwrap()
TestPublisher ==
    /\ ~publisher.registered
    /\ LET r == notify_publisher(NOTIFICATION_CHANNEL)
       IN /\ r.ok
          /\ NOTIFICATION_CHANNEL' = r.s
    /\ publisher' = [publisher EXCEPT !.registered = TRUE]
    /\ UNCHANGED <<xvars, subscriber, bh, qvars, cvars>>

\* publish(m).await: first poll
TestPublish ==
    /\ publisher.registered
    /\ ~publisher.waiting
    /\ bh.calls < MaxPublish
    /\ \E m \in Notice(bh.calls + 1) :
         LET r == TryPublish(NOTIFICATION_CHANNEL, m)
         IN /\ NOTIFICATION_CHANNEL' = r.s
            /\ publisher' = [publisher EXCEPT !.waiting = ~r.ok, !.message = m]
            /\ bh' = [bh EXCEPT
                 !.calls = @ + 1,
                 !.sent = Append(@, m),
                 !.completed = IF r.ok THEN @ + 1 ELSE @,
                 !.outcome = IF r.ok THEN "done" ELSE "suspended",
                 !.pre = [subs |-> NOTIFICATION_CHANNEL.subscriber_count,
                          len |-> Len(NOTIFICATION_CHANNEL.queue)]]
    /\ UNCHANGED <<xvars, subscriber, qvars, cvars>>

\* the suspended publisher is woken by a read and polled again
TestPublishResume ==
    /\ publisher.waiting
    /\ LET r == TryPublish(NOTIFICATION_CHANNEL, publisher.message)
       IN /\ r.ok
          /\ NOTIFICATION_CHANNEL' = r.s
    /\ publisher' = [publisher EXCEPT !.waiting = FALSE]
    /\ bh' = [bh EXCEPT !.completed = @ + 1]
    /\ UNCHANGED <<xvars, subscriber, qvars, cvars>>

\* next_message_pure().await completes
TestNextMessage ==
    /\ subscriber.registered
    /\ LET r == next_message_pure(NOTIFICATION_CHANNEL,
                                  subscriber.next_message_next_id)
       IN /\ r.ready
          /\ NOTIFICATION_CHANNEL' = r.s
          /\ subscriber' = [subscriber EXCEPT
                              !.next_message_next_id = r.next_message_next_id]
          /\ bh' = [bh EXCEPT
               !.read = Append(@, r.msg),
               !.lagged = @ \/ r.lagged,
               !.calls_at_first_read = IF bh.read = <<>> THEN bh.calls ELSE @]
    /\ UNCHANGED <<xvars, publisher, qvars, cvars>>

\* ------------------------------------------------------------------------
\* The command grammar: #[derive(Command)] on BaseCommand, RadioMode,
\* TuneCommand and VolumeCommand (names are the variants' in lower case)
\* ------------------------------------------------------------------------
W_mode == <<109, 111, 100, 101>>
W_fm == <<102, 109>>
W_am == <<97, 109>>
W_off == <<111, 102, 102>>
W_volume == <<118, 111, 108, 117, 109, 101>>
W_up == <<117, 112>>
W_down == <<100, 111, 119, 110>>
W_set == <<115, 101, 116>>
W_tune == <<116, 117, 110, 101>>
W_frequency == <<102, 114, 101, 113, 117, 101, 110, 99, 121>>
W_status == <<115, 116, 97, 116, 117, 115>>
W_help == <<104, 101, 108, 112>>

IsDigit(c) == c >= 48 /\ c <= 57

\* the words of a line: runs of bytes other than the space
RECURSIVE SplitWords(_, _, _)
SplitWords(line, word, acc) ==
    IF line = <<>>
    THEN IF word = <<>> THEN acc ELSE Append(acc, word)
    ELSE IF Head(line) = SPACE
    THEN SplitWords(Tail(line), <<>>, IF word = <<>> THEN acc ELSE Append(acc, word))
    ELSE SplitWords(Tail(line), Append(word, Head(line)), acc)

Words(line) == SplitWords(line, <<>>, <<>>)

\* the value of a run of digits, or -1 once it passes u8::MAX
RECURSIVE U8Digits(_, _)
U8Digits(ds, acc) ==
    IF ds = <<>> THEN acc
    ELSE LET v == acc * 10 + (Head(ds) - 48)
         IN IF v > U8_MAX THEN -1 ELSE U8Digits(Tail(ds), v)

\* u8::from_str: an optional "+", then one digit or more, at most 255
ParseU8(tok) ==
    LET ds == IF tok # <<>> /\ Head(tok) = 43 THEN Tail(tok) ELSE tok
        v == IF ds # <<>> /\ \A i \in 1..Len(ds) : IsDigit(ds[i])
             THEN U8Digits(ds, 0) ELSE -1
    IN [ok |-> v >= 0, value |-> IF v >= 0 THEN v ELSE 0]

RECURSIVE StripZeros(_)
StripZeros(ds) ==
    IF Len(ds) > 1 /\ Head(ds) = 0 THEN StripZeros(Tail(ds)) ELSE ds

\* f32::from_str on a decimal: digits, at most one ".", one digit at least.
\* The model's f32 keeps one fractional digit of the text.
ParseF32(tok) ==
    LET body == IF tok # <<>> /\ Head(tok) = 43 THEN Tail(tok) ELSE tok
        dots == {i \in 1..Len(body) : body[i] = 46}
        dot == IF dots = {} THEN Len(body) + 1 ELSE CHOOSE i \in dots : TRUE
        ip == SubSeq(body, 1, dot - 1)
        fp == SubSeq(body, dot + 1, Len(body))
        ok == /\ Cardinality(dots) <= 1
              /\ Len(ip) + Len(fp) >= 1
              /\ \A i \in 1..Len(ip) : IsDigit(ip[i])
              /\ \A i \in 1..Len(fp) : IsDigit(fp[i])
    IN [ok |-> ok,
        value |-> IF ~ok THEN F32_ZERO
                  ELSE F32(IF ip = <<>> THEN <<0>>
                           ELSE StripZeros([i \in 1..Len(ip) |-> ip[i] - 48]),
                           IF fp = <<>> THEN 0 ELSE fp[1] - 48)]

Command(cmd, sub) == [cmd |-> cmd, sub |-> sub, level |-> 0, frequency |-> F32_ZERO]

\* RadioMode::parse
ParseRadioMode(w) ==
    IF Len(w) # 2 THEN Command("Error", "")
    ELSE IF w[2] = W_fm THEN Command("Mode", "FM")
    ELSE IF w[2] = W_am THEN Command("Mode", "AM")
    ELSE IF w[2] = W_off THEN Command("Mode", "Off")
    ELSE Command("Error", "")

\* VolumeCommand::parse
ParseVolumeCommand(w) ==
    IF Len(w) = 2 /\ w[2] = W_up THEN Command("Volume", "Up")
    ELSE IF Len(w) = 2 /\ w[2] = W_down THEN Command("Volume", "Down")
    ELSE IF Len(w) = 3 /\ w[2] = W_set /\ ParseU8(w[3]).ok
    THEN [Command("Volume", "Set") EXCEPT !.level = ParseU8(w[3]).value]
    ELSE Command("Error", "")

\* TuneCommand::parse
ParseTuneCommand(w) ==
    IF Len(w) = 2 /\ w[2] = W_up THEN Command("Tune", "Up")
    ELSE IF Len(w) = 2 /\ w[2] = W_down THEN Command("Tune", "Down")
    ELSE IF Len(w) = 3 /\ w[2] = W_frequency /\ ParseF32(w[3]).ok
    THEN [Command("Tune", "Frequency") EXCEPT !.frequency = ParseF32(w[3]).value]
    ELSE Command("Error", "")

\* BaseCommand::parse of a completed line; "help" is the line editor's own
ParseBaseCommand(line) ==
    LET w == Words(line)
    IN IF w = <<>> THEN Command("Empty", "")
       ELSE IF w[1] = W_help THEN Command("Help", "")
       ELSE IF w[1] = W_status
       THEN IF Len(w) = 1 THEN Command("Status", "") ELSE Command("Error", "")
       ELSE IF w[1] = W_mode THEN ParseRadioMode(w)
       ELSE IF w[1] = W_volume THEN ParseVolumeCommand(w)
       ELSE IF w[1] = W_tune THEN ParseTuneCommand(w)
       ELSE Command("Error", "")

Handled(out, sends) == [out |-> out, sends |-> sends]

\* the processor closure, were `tune down` to forward a seek-down
ProcessorSeeksDown(c) ==
    CASE c.cmd = "Status" ->
           Handled("System status: All systems operational", <<>>)
      [] c.cmd = "Mode" /\ c.sub = "FM" -> Handled("", <<SystemEvent("RadioFmOn")>>)
      [] c.cmd = "Mode" /\ c.sub = "AM" -> Handled("", <<SystemEvent("RadioAmOn")>>)
      [] c.cmd = "Mode" /\ c.sub = "Off" -> Handled("", <<SystemEvent("RadioOff")>>)
      [] c.cmd = "Volume" /\ c.sub = "Up" ->
           Handled("Volume increased", <<SystemEvent("RadioVolumeUp")>>)
      [] c.cmd = "Volume" /\ c.sub = "Down" ->
           Handled("Volume decreased", <<SystemEvent("RadioVolumeDown")>>)
      [] c.cmd = "Volume" /\ c.sub = "Set" ->
           Handled("Volume set to", <<RadioVolumeSet(c.level)>>)
      [] c.cmd = "Tune" /\ c.sub = "Up" ->
           Handled("Tuning up", <<SystemEvent("RadioSeekUp")>>)
      [] c.cmd = "Tune" /\ c.sub = "Down" ->
           Handled("Tuning down not supported", <<SystemEvent("RadioSeekDown")>>)
      [] c.cmd = "Tune" /\ c.sub = "Frequency" ->
           Handled("", <<RadioSetFrequency(c.frequency)>>)
      [] OTHER -> Handled("", <<>>)

\* the closure given to BaseCommand::processor: the text it writes and the
\* events it passes to event_try_send, in order
Processor(c) ==
    CASE c.cmd = "Status" ->
           Handled("System status: All systems operational", <<>>)
      [] c.cmd = "Mode" /\ c.sub = "FM" -> Handled("", <<SystemEvent("RadioFmOn")>>)
      [] c.cmd = "Mode" /\ c.sub = "AM" -> Handled("", <<SystemEvent("RadioAmOn")>>)
      [] c.cmd = "Mode" /\ c.sub = "Off" -> Handled("", <<SystemEvent("RadioOff")>>)
      [] c.cmd = "Volume" /\ c.sub = "Up" ->
           Handled("Volume increased", <<SystemEvent("RadioVolumeUp")>>)
      [] c.cmd = "Volume" /\ c.sub = "Down" ->
           Handled("Volume decreased", <<SystemEvent("RadioVolumeDown")>>)
      [] c.cmd = "Volume" /\ c.sub = "Set" ->
           Handled("Volume set to", <<RadioVolumeSet(c.level)>>)
      [] c.cmd = "Tune" /\ c.sub = "Up" ->
           Handled("Tuning up", <<SystemEvent("RadioSeekUp")>>)
      [] c.cmd = "Tune" /\ c.sub = "Down" ->
           Handled("Tuning down not supported", <<>>)
      [] c.cmd = "Tune" /\ c.sub = "Frequency" ->
           Handled("", <<RadioSetFrequency(c.frequency)>>)
      [] OTHER -> Handled("", <<>>)

\* ------------------------------------------------------------------------
\* The line editor behind cli.process_byte
\* ------------------------------------------------------------------------
\* the editor's step on one byte: Enter completes the line, Backspace drops
\* the last byte, a printable byte is appended while the buffer has room
EditLine(line, byte) ==
    IF byte = CR THEN [completed |-> TRUE, line |-> <<>>, text |-> line]
    ELSE IF byte = BACKSPACE
    THEN [completed |-> FALSE, text |-> <<>>,
          line |-> IF line = <<>> THEN line ELSE SubSeq(line, 1, Len(line) - 1)]
    ELSE IF byte >= SPACE /\ byte < DEL /\ Len(line) < COMMAND_CAP
    THEN [completed |-> FALSE, text |-> <<>>, line |-> Append(line, byte)]
    ELSE [completed |-> FALSE, text |-> <<>>, line |-> line]

\* the byte my_task hands on: DEL becomes the editor's backspace
RemapKeepsDel(byte) == byte

Remap(byte) == IF byte = DEL THEN BACKSPACE ELSE byte

\* cli_handle_notification: the model update and the message written
NotifyIgnoresTune(ps, event) ==
    CASE event.kind = "RadioAmOn" -> set_mode(ps, "AM")
      [] event.kind = "RadioFmOn" -> set_mode(ps, "FM")
      [] event.kind = "RadioOff" -> set_mode(ps, "Off")
      [] OTHER -> ps

\* cli_handle_notification without its mode arms
NotifyIgnoresMode(ps, event) ==
    CASE event.kind = "TuneStatus" -> set_frequency(ps, event.frequency)
      [] OTHER -> ps

cli_handle_notification(ps, event) ==
    CASE event.kind = "RadioAmOn" -> set_mode(ps, "AM")
      [] event.kind = "RadioFmOn" -> set_mode(ps, "FM")
      [] event.kind = "RadioOff" -> set_mode(ps, "Off")
      [] event.kind = "TuneStatus" -> set_frequency(ps, event.frequency)
      [] OTHER -> ps

NotificationText(event) ==
    CASE event.kind = "RadioAmOn" -> "Switched to AM mode"
      [] event.kind = "RadioFmOn" -> "Switched to FM mode"
      [] event.kind = "RadioOff" -> "Radio powered off"
      [] event.kind = "TuneStatus" -> "Tuned to frequency"
      [] OTHER -> "Notification:"

\* ------------------------------------------------------------------------
\* my_task
\* ------------------------------------------------------------------------
\* event_try_send for each event the processor closure forwards
RECURSIVE TrySendAll(_, _)
TrySendAll(chan, sends) ==
    IF sends = <<>> THEN chan
    ELSE TrySendAll(event_try_send(chan, Head(sends)).ch, Tail(sends))

NoStep == [raw |-> 0, byte |-> 0, read |-> "none", completed |-> FALSE,
           text |-> <<>>, command |-> "", sends |-> <<>>, out |-> "",
           delivered |-> FALSE]

InitTask ==
    /\ pc = "start"
    /\ prompt_status = PromptStatus_new
    /\ cli = [line |-> <<>>, prompt |-> <<>>]
    /\ rx = [armed |-> FALSE, done |-> FALSE, err |-> FALSE, fifo |-> <<>>]
    /\ buffer = 0
    /\ ch = [arrived |-> <<>>, fed |-> <<>>, handled |-> <<>>, step |-> NoStep,
             messages |-> <<>>, renders |-> 0, prev_prompt |-> <<>>,
             touched |-> FALSE, last_read |-> "none", cancelled |-> 0]

\* my_task up to its first await: the prompt is rendered and installed, the
\* bus subscription is taken (unwrap panics when the table is full)
TaskStart ==
    /\ pc = "start"
    /\ ~Halted
    /\ LET ps == get_prompt(PromptStatus_new)
           r == notify_subscriber(NOTIFICATION_CHANNEL)
       IN /\ prompt_status' = ps
          /\ cli' = [line |-> <<>>, prompt |-> ps.prompt]
          /\ NOTIFICATION_CHANNEL' = r.s
          /\ subscriber' = [registered |-> r.ok,
                            next_message_next_id |-> r.next_message_next_id]
          /\ pc' = IF r.ok THEN "select" ELSE "panicked"
          /\ ch' = [ch EXCEPT !.renders = @ + 1, !.prev_prompt = PromptStatus_new.prompt]
    /\ buffer' = 0
    /\ bh' = [bh EXCEPT !.sub_at = bh.calls]
    /\ UNCHANGED <<xvars, qvars, publisher, rx, typing, budget>>

\* select polls its first arm, rx.read(buffer).  A read not yet started is
\* started (STARTRX into buffer); a finished read makes the select return
\* Either::First(_) and ends the inner loop: the read's Result, Ok or Err,
\* is matched by `_` and dropped.
PollRead ==
    /\ pc = "select"
    /\ ~Halted
    /\ IF ~rx.armed
       THEN /\ rx' = [rx EXCEPT !.armed = TRUE, !.done = FALSE, !.err = FALSE]
            /\ pc' = "poll_notify"
            /\ ch' = ch
       ELSE IF rx.done
       THEN /\ rx' = [rx EXCEPT !.armed = FALSE, !.done = FALSE, !.err = FALSE]
            /\ pc' = "byte"
            /\ ch' = [ch EXCEPT !.last_read = IF rx.err THEN "Err" ELSE "Ok"]
       ELSE /\ rx' = rx
            /\ pc' = "poll_notify"
            /\ ch' = ch
    /\ UNCHANGED <<xvars, qvars, bvars, prompt_status, cli, buffer, typing, budget>>

\* select polls its second arm, next_message_pure().  With a notification
\* the select returns Either::Second and both futures are dropped: the read
\* is stopped, and what it had stored in buffer is not looked at.  The
\* notification is written, the model updated, the prompt rendered and
\* installed, and the inner loop goes round.
PollNotify ==
    /\ pc = "poll_notify"
    /\ ~Halted
    /\ LET r == next_message_pure(NOTIFICATION_CHANNEL,
                                  subscriber.next_message_next_id)
       IN IF r.ready
          THEN LET ps == get_prompt(cli_handle_notification(prompt_status, r.msg))
               IN /\ NOTIFICATION_CHANNEL' = r.s
                  /\ subscriber' = [subscriber EXCEPT
                                      !.next_message_next_id = r.next_message_next_id]
                  /\ rx' = [rx EXCEPT !.armed = FALSE, !.done = FALSE,
                                       !.err = FALSE]
                  /\ prompt_status' = ps
                  /\ cli' = [cli EXCEPT !.prompt = ps.prompt]
                  /\ ch' = [ch EXCEPT
                       !.handled = Append(@, r.msg),
                       !.messages = Append(@, NotificationText(r.msg)),
                       !.cancelled = IF rx.armed THEN @ + 1 ELSE @,
                       !.renders = @ + 1,
                       !.prev_prompt = prompt_status.prompt,
                       !.touched = r.msg.kind \in
                           {"RadioAmOn", "RadioFmOn", "RadioOff", "TuneStatus"}]
                  /\ bh' = [bh EXCEPT !.read = Append(@, r.msg),
                                      !.lagged = @ \/ r.lagged]
                  /\ pc' = "select"
          ELSE /\ pc' = "suspended"
               /\ UNCHANGED <<NOTIFICATION_CHANNEL, subscriber, rx,
                              prompt_status, cli, ch, bh>>
    /\ UNCHANGED <<xvars, qvars, publisher, buffer, typing, budget>>

\* my_task is woken by the receiver's interrupt or by a publish
TaskWake ==
    /\ pc = "suspended"
    /\ ~Halted
    /\ \/ rx.done
       \/ next_message_pure(NOTIFICATION_CHANNEL,
                            subscriber.next_message_next_id).ready
    /\ pc' = "select"
    /\ UNCHANGED <<xvars, qvars, bvars, prompt_status, cli, rx, buffer, typing, budget, ch>>

\* after the inner loop: DEL is remapped, the byte goes to cli.process_byte,
\* a completed line is parsed and the processor closure runs
ProcessByte ==
    /\ pc = "byte"
    /\ ~Halted
    /\ LET byte == Remap(buffer)
           e == EditLine(cli.line, byte)
           c == IF e.completed THEN ParseBaseCommand(e.text) ELSE Command("", "")
           h == Processor(c)
           chan == TrySendAll(EVENT_CHANNEL, h.sends)
       IN /\ cli' = [cli EXCEPT !.line = e.line]
          /\ EVENT_CHANNEL' = chan
          /\ ch' = [ch EXCEPT
               !.fed = Append(@, byte),
               !.step = [raw |-> buffer, byte |-> byte, read |-> ch.last_read,
                         completed |-> e.completed,
                         text |-> e.text, command |-> c.cmd,
                         sends |-> h.sends, out |-> h.out,
                         delivered |-> chan # EVENT_CHANNEL]]
    /\ buffer' = 0
    /\ pc' = "select"
    /\ UNCHANGED <<xvars, sender, receiver, qh, bvars, prompt_status, rx, typing, budget>>

\* ------------------------------------------------------------------------
\* The transport and the console's test publisher
\* ------------------------------------------------------------------------
\* a byte of the operator reaches the receiver
LineReceive ==
    /\ typing # <<>>
    /\ rx' = [rx EXCEPT !.fifo = Append(@, Head(typing))]
    /\ typing' = Tail(typing)
    /\ ch' = [ch EXCEPT !.arrived = Append(@, Head(typing))]
    /\ UNCHANGED <<xvars, qvars, bvars, pc, prompt_status, cli, buffer, budget>>

\* the rest of what the operator sends reaches the receiver in one burst
LineBurst ==
    /\ typing # <<>>
    /\ rx' = [rx EXCEPT !.fifo = @ \o typing]
    /\ typing' = <<>>
    /\ ch' = [ch EXCEPT !.arrived = @ \o typing]
    /\ UNCHANGED <<xvars, qvars, bvars, pc, prompt_status, cli, buffer, budget>>

\* the started read stores the oldest received byte in buffer: ENDRX
RxDma ==
    /\ rx.armed
    /\ ~rx.done
    /\ rx.fifo # <<>>
    /\ buffer' = Head(rx.fifo)
    /\ rx' = [rx EXCEPT !.fifo = Tail(@), !.done = TRUE]
    /\ UNCHANGED <<xvars, qvars, bvars, pc, prompt_status, cli, typing, budget, ch>>

\* the started read ends with an error (overrun, parity, framing, break) on
\* the oldest received byte: the read is Ready(Err(_)), and the byte may or
\* may not have been stored in buffer before the receiver stopped
RxError ==
    /\ rx.armed
    /\ ~rx.done
    /\ rx.fifo # <<>>
    /\ buffer' \in {buffer, Head(rx.fifo)}
    /\ rx' = [rx EXCEPT !.fifo = Tail(@), !.done = TRUE, !.err = TRUE]
    /\ UNCHANGED <<xvars, qvars, bvars, pc, prompt_status, cli, typing, budget, ch>>

F32_101_1 == F32(<<1, 0, 1>>, 1)
F32_BIG == F32(<<1, 2, 3, 4, 5, 6, 7, 8, 9, 0, 1, 2>>, 5)

\* every kind of notification, with a frequency that fits the prompt and
\* one that does not
AllNotices ==
    {SystemNotify("RadioAmOn"), SystemNotify("RadioFmOn"), SystemNotify("RadioOff"),
     TuneStatus(F32_101_1), TuneStatus(F32_BIG), SystemNotify("RevisionInfo"),
     SystemNotify("RadioMute"), SystemNotify("RadioUnmute"), VolumeChanged(7)}

\* one notification of each arm of cli_handle_notification's effect
SomeNotices ==
    {SystemNotify("RadioAmOn"), TuneStatus(F32_101_1), SystemNotify("RevisionInfo")}

\* a publisher publishes a notification the bus has room for
InjectNotify ==
    /\ budget.left > 0
    /\ \E m \in budget.notices :
         LET r == TryPublish(NOTIFICATION_CHANNEL, m)
         IN /\ r.ok
            /\ NOTIFICATION_CHANNEL' = r.s
            /\ bh' = [bh EXCEPT !.calls = @ + 1, !.completed = @ + 1,
                                !.sent = Append(@, m)]
    /\ budget' = [budget EXCEPT !.left = @ - 1]
    /\ UNCHANGED <<xvars, qvars, subscriber, publisher, pc, prompt_status, cli, rx,
                   buffer, typing, ch>>

\* ------------------------------------------------------------------------
\* main: startup from the spawn of my_task on, and the control loop
\* ------------------------------------------------------------------------
\* frequencies the receiver reports
DriverFrequencies == {F32_101_1, F32(<<8, 7>>, 5)}

\* the intents whose arm of the control loop's match calls the driver
DriverIntents ==
    {"RadioVolumeUp", "RadioVolumeDown", "RadioSetFrequency", "RadioSeekUp"}

\* `.expect(..)` on an Err, `.unwrap()` on a None: main panics
MainPanic ==
    /\ main' = [main EXCEPT !.pc = "panicked"]
    /\ UNCHANGED <<NOTIFICATION_CHANNEL, publisher, bh>>

\* notification_publisher.publish(m).await polled for the first time; main
\* goes on at `next` once the publish is done
MainPublish(chan, m, next) ==
    LET r == TryPublish(chan, m)
    IN /\ NOTIFICATION_CHANNEL' = r.s
       /\ publisher' = [registered |-> TRUE, waiting |-> ~r.ok, message |-> m]
       /\ bh' = [bh EXCEPT
            !.calls = @ + 1,
            !.sent = Append(@, m),
            !.completed = IF r.ok THEN @ + 1 ELSE @,
            !.outcome = IF r.ok THEN "done" ELSE "suspended",
            !.pre = [subs |-> chan.subscriber_count, len |-> Len(chan.queue)]]
       /\ main' = [main EXCEPT !.pc = IF r.ok THEN next ELSE "publish",
                               !.next = next]

\* main is polled after yield_now and starts radio_dev.fm(), a transfer on
\* the I2C bus that suspends it
MainFm ==
    /\ main.pc = "yield55"
    /\ ~Halted
    /\ main' = [main EXCEPT !.pc = "fm"]
    /\ UNCHANGED <<qvars, bvars, cvars, mh, WRITER_OUT, wh>>

\* radio_dev.fm() is done.  main is polled again only after the tasks that
\* were in the run queue when it suspended, and my_task is in it since the
\* spawn: my_task has run to its first await.  Then notify_publisher()
\* and the publish of RadioFmOn.
MainFmDone ==
    /\ main.pc = "fm"
    /\ ~Halted
    /\ pc # "start"
    /\ \E ok \in BOOLEAN :
         LET r == notify_publisher(NOTIFICATION_CHANNEL)
         IN IF ok /\ r.ok
            THEN /\ MainPublish(r.s, SystemNotify("RadioFmOn"), "yield62")
                 /\ mh' = [mh EXCEPT !.startup = 1]
            ELSE MainPanic /\ mh' = mh
    /\ UNCHANGED <<qvars, subscriber, cvars, WRITER_OUT, wh>>

\* a publish that found the bus full is polled again after a read
MainPublishResume ==
    /\ main.pc = "publish"
    /\ ~Halted
    /\ LET r == TryPublish(NOTIFICATION_CHANNEL, publisher.message)
       IN /\ r.ok
          /\ NOTIFICATION_CHANNEL' = r.s
    /\ publisher' = [publisher EXCEPT !.waiting = FALSE]
    /\ bh' = [bh EXCEPT !.completed = @ + 1]
    /\ main' = [main EXCEPT !.pc = main.next]
    /\ UNCHANGED <<qvars, subscriber, cvars, mh, WRITER_OUT, wh>>

\* after the second yield_now: the publish of RevisionInfo
MainRevision ==
    /\ main.pc = "yield62"
    /\ ~Halted
    /\ MainPublish(NOTIFICATION_CHANNEL, SystemNotify("RevisionInfo"), "yield66")
    /\ mh' = [mh EXCEPT !.startup = 2]
    /\ UNCHANGED <<qvars, subscriber, cvars, WRITER_OUT, wh>>

\* after the third yield_now: radio.tune_status_get() is started
MainTuneStatusGet ==
    /\ main.pc = "yield66"
    /\ ~Halted
    /\ main' = [main EXCEPT !.pc = "tune_status_get"]
    /\ UNCHANGED <<qvars, bvars, cvars, mh, WRITER_OUT, wh>>

\* tune_status_get() is done: the publish of TuneStatus, then the loop
MainTuneStatusDone ==
    /\ main.pc = "tune_status_get"
    /\ ~Halted
    /\ \E ok \in BOOLEAN, f \in DriverFrequencies :
         IF ok
         THEN /\ MainPublish(NOTIFICATION_CHANNEL, TuneStatus(f), "loop")
              /\ mh' = [mh EXCEPT !.startup = 3]
         ELSE MainPanic /\ mh' = mh
    /\ UNCHANGED <<qvars, subscriber, cvars, WRITER_OUT, wh>>

\* the loop's two timers have run out; event_receive().await is polled
MainReceive ==
    /\ main.pc = "loop"
    /\ ~Halted
    /\ LET r == event_receive(EVENT_CHANNEL)
       IN /\ EVENT_CHANNEL' = r.ch
          /\ receiver' = IF r.ready THEN "running" ELSE "suspended"
          /\ main' = IF r.ready
                     THEN [main EXCEPT !.pc = "match", !.event = Head(EVENT_CHANNEL)]
                     ELSE [main EXCEPT !.pc = "receive"]
          /\ mh' = IF r.ready
                   THEN [mh EXCEPT !.consumed = @ + 1,
                                   !.driver = "none", !.published = FALSE]
                   ELSE mh
    /\ UNCHANGED <<sender, qh, bvars, cvars, WRITER_OUT, wh>>

\* main, suspended in event_receive, is woken by a send
MainReceiveResume ==
    /\ main.pc = "receive"
    /\ ~Halted
    /\ LET r == event_receive(EVENT_CHANNEL)
       IN /\ r.ready
          /\ EVENT_CHANNEL' = r.ch
    /\ receiver' = "running"
    /\ main' = [main EXCEPT !.pc = "match", !.event = Head(EVENT_CHANNEL)]
    /\ mh' = [mh EXCEPT !.consumed = @ + 1,
                        !.driver = "none", !.published = FALSE]
    /\ UNCHANGED <<sender, qh, bvars, cvars, WRITER_OUT, wh>>

\* a match whose mode arms publish the mode they were asked for
MainMatchPublishesMode ==
    /\ main.pc = "match"
    /\ ~Halted
    /\ IF main.event.kind \in {"RadioFmOn", "RadioAmOn", "RadioOff"}
       THEN /\ MainPublish(NOTIFICATION_CHANNEL, SystemNotify(main.event.kind),
                           "loop")
            /\ mh' = [mh EXCEPT !.published = TRUE]
            /\ UNCHANGED <<qvars, subscriber, cvars, WRITER_OUT, wh>>
       ELSE /\ main' = [main EXCEPT !.pc = IF main.event.kind \in DriverIntents
                                           THEN "driver" ELSE "loop"]
            /\ UNCHANGED <<qvars, bvars, cvars, mh, WRITER_OUT, wh>>

\* match event: four arms start a driver operation, `_` only logs
MainMatch ==
    /\ main.pc = "match"
    /\ ~Halted
    /\ main' = [main EXCEPT !.pc = IF main.event.kind \in DriverIntents
                                   THEN "driver" ELSE "loop"]
    /\ UNCHANGED <<qvars, bvars, cvars, mh, WRITER_OUT, wh>>

\* the driver operation is done: `.expect` panics on Err; volume_up and
\* volume_down publish nothing, tune_frequency and seek_up publish the
\* TuneStatus returned
MainDriverDone ==
    /\ main.pc = "driver"
    /\ ~Halted
    /\ \E ok \in BOOLEAN,
          f \in IF main.event.kind = "RadioSetFrequency"
                THEN {main.event.frequency} ELSE DriverFrequencies :
         IF ~ok
         THEN MainPanic /\ mh' = [mh EXCEPT !.driver = "Err"]
         ELSE IF main.event.kind \in {"RadioVolumeUp", "RadioVolumeDown"}
         THEN /\ main' = [main EXCEPT !.pc = "loop"]
              /\ mh' = [mh EXCEPT !.driver = "Ok"]
              /\ UNCHANGED <<NOTIFICATION_CHANNEL, publisher, bh>>
         ELSE /\ MainPublish(NOTIFICATION_CHANNEL, TuneStatus(f), "loop")
              /\ mh' = [mh EXCEPT !.driver = "Ok", !.published = TRUE]
    /\ UNCHANGED <<qvars, subscriber, cvars, WRITER_OUT, wh>>

MainNext ==
    \/ MainFm
    \/ MainFmDone
    \/ MainPublishResume
    \/ MainRevision
    \/ MainTuneStatusGet
    \/ MainTuneStatusDone
    \/ MainReceive
    \/ MainReceiveResume
    \/ MainMatch
    \/ MainDriverDone

\* ------------------------------------------------------------------------
\* Specifications
\* ------------------------------------------------------------------------
\* the bytes an operator may send in a short session
Keys == {97, DEL, CR}

RECURSIVE KeySeqs(_)
KeySeqs(n) ==
    IF n = 0 THEN {<<>>}
    ELSE KeySeqs(n - 1) \cup
         {Append(s, k) : s \in {t \in KeySeqs(n - 1) : Len(t) = n - 1}, k \in Keys}

\* the lines an operator may type, each ended by Enter
Sessions ==
    {<<109, 111, 100, 101, 32, 102, 109, 13>>,
     <<109, 111, 100, 101, 32, 97, 109, 13>>,
     <<109, 111, 100, 101, 32, 111, 102, 102, 13>>,
     <<118, 111, 108, 117, 109, 101, 32, 117, 112, 13>>,
     <<118, 111, 108, 117, 109, 101, 32, 100, 111, 119, 110, 13>>,
     <<118, 111, 108, 117, 109, 101, 32, 115, 101, 116, 32, 52, 50, 13>>,
     <<118, 111, 108, 117, 109, 101, 32, 115, 101, 116, 32, 50, 48, 48, 13>>,
     <<118, 111, 108, 117, 109, 101, 32, 115, 101, 116, 32, 51, 48, 48, 13>>,
     <<116, 117, 110, 101, 32, 117, 112, 13>>,
     <<116, 117, 110, 101, 32, 100, 111, 119, 110, 13>>,
     <<116, 117, 110, 101, 32, 102, 114, 101, 113, 117, 101, 110, 99, 121, 32, 49, 48, 49, 46, 49, 13>>,
     <<116, 117, 110, 101, 32, 102, 114, 101, 113, 117, 101, 110, 99, 121, 32, 97, 98, 99, 13>>,
     <<115, 116, 97, 116, 117, 115, 13>>,
     <<102, 114, 111, 98, 110, 105, 99, 97, 116, 101, 13>>,
     <<109, 111, 100, 101, 13>>,
     <<104, 101, 108, 112, 13>>,
     <<13>>,
     <<109, 111, 100, 101, 32, 102, 109, 32, 101, 120, 116, 114, 97, 13>>,
     <<109, 111, 100, 101, 32, 102, 120, 127, 109, 13>>,
     <<8, 0, 255, 126, 128, 127, 13>>,
     <<118, 111, 108, 117, 109, 101, 32, 117, 112, 13, 118, 111, 108, 117, 109, 101, 32, 100, 111, 119, 110, 13>>}

TaskNext == TaskStart \/ PollRead \/ PollNotify \/ TaskWake \/ ProcessByte

\* the Command Queue under its clients
InitQueueClients ==
    /\ InitQueue /\ InitBus /\ InitTask /\ InitMain /\ InitWriter
    /\ typing = <<>>
    /\ budget = [left |-> 0, notices |-> {}]
NextQueue ==
    \/ TestTrySend
    \/ TestSend
    \/ TestSendResume
    \/ TestReceive
    \/ TestReceiveResume
SpecQueue == InitQueueClients /\ [][NextQueue]_vars

\* the Notification Bus under its clients
NextBus ==
    \/ TestSubscribe
    \/ TestPublisher
    \/ TestPublish
    \/ TestPublishResume
    \/ TestNextMessage
SpecBus == InitQueueClients /\ [][NextBus]_vars

\* my_task with bytes and notifications arriving in any order
InitConsole ==
    /\ InitQueue /\ InitBus /\ InitTask /\ InitMain /\ InitWriter
    /\ typing \in KeySeqs(MaxBytes)
    /\ budget = [left |-> MaxNotify, notices |-> SomeNotices]
NextConsole == TaskNext \/ LineReceive \/ RxDma \/ InjectNotify
SpecConsole == InitConsole /\ [][NextConsole]_vars

\* my_task with notifications of every kind arriving and no input
InitPrompt ==
    /\ InitQueue /\ InitBus /\ InitTask /\ InitMain /\ InitWriter
    /\ typing = <<>>
    /\ budget = [left |-> MaxNotify, notices |-> AllNotices]
NextPrompt == TaskStart \/ PollRead \/ PollNotify \/ TaskWake \/ InjectNotify
SpecPrompt == InitPrompt /\ [][NextPrompt]_vars

\* my_task with an operator typing command lines
InitCli ==
    /\ InitQueue /\ InitBus /\ InitTask /\ InitMain /\ InitWriter
    /\ typing \in Sessions
    /\ budget = [left |-> 0, notices |-> {}]
NextCli == TaskNext \/ LineReceive \/ RxDma
SpecCli == InitCli /\ [][NextCli]_vars

\* my_task on a transport whose reads may fail
InitTransport ==
    /\ InitQueue /\ InitBus /\ InitTask /\ InitMain /\ InitWriter
    /\ typing \in KeySeqs(MaxBytes)
    /\ budget = [left |-> 1, notices |-> SomeNotices]
NextTransport == TaskNext \/ LineReceive \/ RxDma \/ RxError \/ InjectNotify
SpecTransport == InitTransport /\ [][NextTransport]_vars

\* the lines an operator types while main and my_task both run
SystemSessions ==
    {<<118, 111, 108, 117, 109, 101, 32, 117, 112, 13>>,
     <<116, 117, 110, 101, 32, 117, 112, 13>>,
     <<109, 111, 100, 101, 32, 97, 109, 13>>,
     <<109, 111, 100, 101, 32, 111, 102, 102, 13>>,
     <<116, 117, 110, 101, 32, 102, 114, 101, 113, 117, 101, 110, 99, 121, 32, 57, 57, 13>>,
     <<118, 111, 108, 117, 109, 101, 32, 115, 101, 116, 32, 52, 50, 13>>}

\* main and my_task with an operator typing a command line
InitSystem ==
    /\ InitQueue /\ InitBus /\ InitTask /\ InitMain /\ InitWriter
    /\ typing \in SystemSessions
    /\ budget = [left |-> 0, notices |-> {}]
NextSystem ==
    \/ TaskNext
    \/ MainFm
    \/ MainFmDone
    \/ MainRevision
    \/ MainTuneStatusGet
    \/ MainTuneStatusDone
    \/ MainReceive
    \/ MainReceiveResume
    \/ MainMatch
    \/ MainDriverDone
    \/ LineBurst
    \/ RxDma
SpecSystem == InitSystem /\ [][NextSystem]_vars

\* main with a producer of intents and a subscriber that reads when it likes
InitControl ==
    /\ InitQueue /\ InitBus /\ InitTask /\ InitMain /\ InitWriter
    /\ typing = <<>>
    /\ budget = [left |-> 0, notices |-> {}]
NextControl == TaskStart \/ MainNext \/ TestIntent \/ TestNextMessage
SpecControl == InitControl /\ [][NextControl]_vars

\* the global writer under its clients
NextWriter == TestStdoutInit \/ TestWrite
SpecWriter == InitControl /\ [][NextWriter]_vars

\* main and my_task on a bus that a second publisher helps to fill, with
\* the intents of the console offered by event_try_send at any time
BusyNotices == {SystemNotify("RadioMute")}

InitBusy ==
    /\ InitQueue /\ InitBus /\ InitTask /\ InitMain /\ InitWriter
    /\ typing = <<>>
    /\ budget = [left |-> MaxSecond, notices |-> BusyNotices]
NextBusy ==
    \/ TaskStart
    \/ PollRead
    \/ PollNotify
    \/ TaskWake
    \/ MainNext
    \/ TestSeekUp
    \/ InjectNotify
SpecBusy == InitBusy /\ [][NextBusy]_vars

\* PollNotify with its guard alone.  PollNotify can be taken in every state
\* at "poll_notify" and each of its steps leaves "poll_notify", so weak
\* fairness of PollNotify says that my_task is infinitely often away from
\* "poll_notify" (or halted), and weak fairness of this action says the same
PollNotifyStep ==
    /\ pc = "poll_notify"
    /\ ~Halted
    /\ pc' = "suspended"
    /\ UNCHANGED <<xvars, qvars, bvars, prompt_status, cli, rx, buffer, typing,
                   budget, ch>>

\* the executor polls a task that has been woken
SpecBusyFair ==
    /\ SpecBusy
    /\ WF_vars(PollRead)
    /\ WF_vars(PollNotifyStep)
    /\ WF_vars(TaskWake)
    /\ WF_vars(MainPublishResume)

\* the Command Queue with a control loop that keeps receiving and an
\* executor that polls a woken sender
SpecQueueFair ==
    /\ SpecQueue
    /\ WF_vars(TestReceive)
    /\ WF_vars(TestReceiveResume)
    /\ SF_vars(TestSendResume)

\* ========================================================================
\* Claims
\* ========================================================================

\* C1 (as stated): every byte that arrived is handed to cli.process_byte
\* once and in arrival order (DEL as backspace), however often a
\* notification wins the select in between: the bytes fed are always the
\* first bytes that arrived.
C1_NoByteLoss ==
    /\ Len(ch.fed) <= Len(ch.arrived)
    /\ \A i \in 1..Len(ch.fed) :
         ch.fed[i] = IF ch.arrived[i] = DEL THEN BACKSPACE ELSE ch.arrived[i]

\* C2 (as stated): from an empty queue, two event_try_send calls with no
\* receive in between leave the first intent in the slot, and the second
\* call reports not-delivered.
C2_SecondReportsNotDelivered ==
    (qh.from_empty /\ Len(qh.burst) = 2) =>
        /\ EVENT_CHANNEL = <<qh.burst[1]>>
        /\ qh.try_ret = "not_delivered"

\* C2 (amended): from an empty queue, two event_try_send calls with no
\* receive in between leave the first intent in the slot; the second intent
\* is discarded, is never received and never replaces the first; the call
\* returns () whether or not the intent was taken.
C2_DropOnFull ==
    /\ (qh.from_empty /\ Len(qh.burst) = 2) =>
          /\ EVENT_CHANNEL = <<qh.burst[1]>>
          /\ qh.burst[1] \in Range(qh.accepted)
          /\ qh.burst[2] \in Range(qh.dropped)
          /\ qh.try_ret = "unit"
    /\ \A i \in 1..Len(qh.dropped) :
          /\ qh.dropped[i] \notin Range(qh.received)
          /\ qh.dropped[i] \notin Range(EVENT_CHANNEL)

C2_Witness == qh.from_empty /\ Len(qh.burst) = 2 /\ EVENT_CHANNEL = <<qh.burst[1]>>

C6_SingleSlotExactlyOnce ==
    /\ [](Len(EVENT_CHANNEL) <= 1)
    /\ [](qh.accepted = qh.received \o EVENT_CHANNEL)
    /\ [][(qh.received' # qh.received) =>
             /\ EVENT_CHANNEL # <<>>
             /\ qh.received' = Append(qh.received, Head(EVENT_CHANNEL))
             /\ EVENT_CHANNEL' = <<>>]_vars
    /\ [][(receiver = "running" /\ receiver' = "suspended") =>
             EVENT_CHANNEL = <<>>]_vars

C6_Witness ==
    /\ Len(qh.received) >= 2
    /\ qh.dropped # <<>>
    /\ receiver = "suspended"

RECURSIVE LastMode(_)
LastMode(ns) ==
    IF ns = <<>> THEN "FM"
    ELSE LET n == ns[Len(ns)]
         IN CASE n.kind = "RadioFmOn" -> "FM"
              [] n.kind = "RadioAmOn" -> "AM"
              [] n.kind = "RadioOff" -> "Off"
              [] OTHER -> LastMode(SubSeq(ns, 1, Len(ns) - 1))

RECURSIVE LastFrequency(_)
LastFrequency(ns) ==
    IF ns = <<>> THEN F32_ZERO
    ELSE LET n == ns[Len(ns)]
         IN IF n.kind = "TuneStatus" THEN n.frequency
            ELSE LastFrequency(SubSeq(ns, 1, Len(ns) - 1))

ModeNotices == {"RadioFmOn", "RadioAmOn", "RadioOff"}

\* C7: the stored mode is that of the last mode notification handled (FM
\* if none), the stored frequency that of the last TuneStatus (0.0 if
\* none); a notification of any other kind changes neither, a mode
\* notification leaves the frequency and a TuneStatus leaves the mode.
C7_PromptStatusUpdate ==
    /\ [](/\ prompt_status.mode = LastMode(ch.handled)
          /\ prompt_status.frequency = LastFrequency(ch.handled))
    /\ [][(Len(ch.handled') = Len(ch.handled) + 1) =>
            LET n == ch.handled'[Len(ch.handled')]
            IN /\ n.kind \notin ModeNotices
                    => prompt_status'.mode = prompt_status.mode
               /\ n.kind # "TuneStatus"
                    => prompt_status'.frequency = prompt_status.frequency]_vars

C7_Witness ==
    /\ Len(ch.handled) = 2
    /\ ch.handled[1] = TuneStatus(F32_101_1)
    /\ ch.handled[2].kind = "RadioOff"
    /\ prompt_status.mode = "Off"
    /\ prompt_status.frequency = F32_101_1

\* C8: the rendered prompt never exceeds 64 bytes, whatever mode and
\* frequency are stored; after RadioAmOn then TuneStatus(101.1) it contains
\* "AM" and "101.1".
C8_PromptWithinCapacity ==
    /\ Len(prompt_status.prompt) <= 64
    /\ Len(cli.prompt) <= 64
    /\ (/\ Len(ch.handled) >= 2
        /\ ch.handled[Len(ch.handled) - 1].kind = "RadioAmOn"
        /\ ch.handled[Len(ch.handled)] = TuneStatus(F32_101_1))
          => /\ Contains(prompt_status.prompt, <<65, 77>>)
             /\ Contains(prompt_status.prompt, <<49, 48, 49, 46, 49>>)

C8_Witness ==
    /\ Len(ch.handled) = 3
    /\ ch.handled[1] = TuneStatus(F32_BIG)
    /\ ch.handled[Len(ch.handled) - 1].kind = "RadioAmOn"
    /\ ch.handled[Len(ch.handled)] = TuneStatus(F32_101_1)
    /\ Contains(cli.prompt, <<65, 77>>)

\* C9: a get_prompt that follows another with no set_mode or set_frequency
\* in between yields the same text, and a rendered prompt holds nothing of
\* an earlier render: it is the start of the text of the stored values.
C9_IdempotentRender ==
    /\ (ch.renders >= 2 /\ ~ch.touched) => prompt_status.prompt = ch.prev_prompt
    /\ ch.renders >= 1 =>
          IsPrefix(prompt_status.prompt,
                   Concat(PromptPieces(prompt_status.mode, prompt_status.frequency)))

C9_Witness ==
    /\ ch.renders >= 2 /\ ~ch.touched
    /\ prompt_status.prompt = ch.prev_prompt
    /\ prompt_status.prompt # <<>>

\* the Intent each line of the grammar stands for
GrammarIntent(text) ==
    CASE
         text = <<109, 111, 100, 101, 32, 102, 109>> -> <<SystemEvent("RadioFmOn")>>   \* mode fm
      [] text = <<109, 111, 100, 101, 32, 97, 109>> -> <<SystemEvent("RadioAmOn")>>   \* mode am
      [] text = <<109, 111, 100, 101, 32, 111, 102, 102>> -> <<SystemEvent("RadioOff")>>   \* mode off
      [] text = <<118, 111, 108, 117, 109, 101, 32, 117, 112>> -> <<SystemEvent("RadioVolumeUp")>>   \* volume up
      [] text = <<118, 111, 108, 117, 109, 101, 32, 100, 111, 119, 110>> -> <<SystemEvent("RadioVolumeDown")>>   \* volume down
      [] text = <<118, 111, 108, 117, 109, 101, 32, 115, 101, 116, 32, 52, 50>> -> <<RadioVolumeSet(42)>>   \* volume set 42
      [] text = <<118, 111, 108, 117, 109, 101, 32, 115, 101, 116, 32, 50, 48, 48>> -> <<RadioVolumeSet(200)>>   \* volume set 200
      [] text = <<116, 117, 110, 101, 32, 117, 112>> -> <<SystemEvent("RadioSeekUp")>>   \* tune up
      [] text = <<116, 117, 110, 101, 32, 102, 114, 101, 113, 117, 101, 110, 99, 121, 32, 49, 48, 49, 46, 49>> -> <<RadioSetFrequency(F32_101_1)>>   \* tune frequency 101.1
      [] OTHER -> <<>>

\* C10: a byte that completes no line forwards nothing; a completed line
\* makes at most one event_try_send, of the Intent the grammar gives the
\* line, and none for `status`, `tune down` and lines that do not parse.
C10_GrammarDispatch ==
    /\ Len(ch.step.sends) <= 1
    /\ ~ch.step.completed => (ch.step.sends = <<>> /\ ~ch.step.delivered)
    /\ ch.step.completed => ch.step.sends = GrammarIntent(ch.step.text)
    /\ ch.step.delivered => Len(ch.step.sends) = 1

C10_Witness ==
    /\ ch.step.completed
    /\ ch.step.text = <<118, 111, 108, 117, 109, 101, 32, 115, 101, 116, 32, 52, 50>>
    /\ ch.step.sends = <<RadioVolumeSet(42)>>
    /\ EVENT_CHANNEL = <<RadioVolumeSet(42)>>

\* C11 (as stated): every RadioVolumeSet the console passes to
\* event_try_send, and every one held in the Command Queue, carries a level
\* from 0 to 100: `volume set n` with n above 100 forwards no such Intent.
C11_VolumeLevelRange ==
    /\ \A i \in 1..Len(ch.step.sends) :
         ch.step.sends[i].kind = "RadioVolumeSet"
            => ch.step.sends[i].level \in 0..100
    /\ \A i \in 1..Len(EVENT_CHANNEL) :
         EVENT_CHANNEL[i].kind = "RadioVolumeSet"
            => EVENT_CHANNEL[i].level \in 0..100

\* C12 (as stated): a read of the transport that completes with an error
\* feeds no byte to the line editor: no cli.process_byte follows a failed
\* read as if a byte had been received.
C12_ReadErrorIsFatal == ch.step.read # "Err"

\* C13 (as stated): an error of the driver for the operation of a consumed
\* Intent ends that operation only: the control loop has not stopped, it
\* goes on to receive the next Intent.
C13_DriverFailureAbandonsOperationOnly ==
    mh.driver = "Err" => main.pc \in {"loop", "receive", "match"}

\* the intents that change the receiver's status
StatusIntents ==
    {"RadioFmOn", "RadioAmOn", "RadioOff", "RadioSetFrequency", "RadioSeekUp",
     "RadioSeekDown", "RadioVolumeUp", "RadioVolumeDown", "RadioVolumeSet"}

\* C18 (as stated): when the control loop is back at event_receive after an
\* Intent that changes the receiver's status and no driver error, it has
\* published the resulting status on the Notification Bus.
C18_RepublishBeforeNextIntent ==
    (/\ main.pc \in {"loop", "receive"}
     /\ mh.consumed > 0
     /\ main.event.kind \in StatusIntents
     /\ mh.driver # "Err")
        => mh.published

\* C14: a write through the global writer returns Ok(buf.len()), with or
\* without a TX installed and whether or not blocking_write put all of buf
\* on the wire; nothing is on the wire before stdout_init, and no byte
\* written before stdout_init is on the wire afterwards; the critical
\* section is left when the call returns.
C14_SharedWriterNeverFails ==
    /\ wh.ret = [ok |-> TRUE, n |-> wh.len]
    /\ WRITER_OUT.tx = "None" => WRITER_OUT.wire = <<>>
    /\ \A i \in 1..Len(WRITER_OUT.wire) :
         \/ WRITER_OUT.wire[i] = LF
         \/ WRITER_OUT.wire[i] > 64 + wh.at_init
    /\ WRITER_OUT.cs = 0

C14_Witness ==
    /\ WRITER_OUT.tx = "Some"
    /\ wh.at_init >= 1
    /\ wh.writes > wh.at_init
    /\ wh.fell_short
    /\ wh.len = 2
    /\ Len(WRITER_OUT.wire) >= 2

\* C15 (as stated): when the notification arm wins the select, the read of
\* the transport that lost is still outstanding: no started read is ever
\* stopped and replaced by a new one.
C15_LosingArmPreserved == ch.cancelled = 0

\* C16: each notification my_task receives writes one message; whenever a
\* byte is about to be given to cli.process_byte, the prompt installed in
\* the line editor is the rendering of the stored mode and frequency, and
\* these are the mode and the frequency of the notifications received.
C16_PromptKeptCurrent ==
    /\ Len(ch.messages) = Len(ch.handled)
    /\ pc = "byte" =>
          /\ prompt_status.mode = LastMode(ch.handled)
          /\ prompt_status.frequency = LastFrequency(ch.handled)
          /\ cli.prompt = WriteFmt(<<>>, PromptPieces(prompt_status.mode,
                                                     prompt_status.frequency))

C16_Witness ==
    /\ pc = "byte"
    /\ Len(ch.handled) >= 2
    /\ prompt_status.mode = "AM"
    /\ prompt_status.frequency = F32_101_1
    /\ Contains(cli.prompt, <<65, 77>>)
    /\ Contains(cli.prompt, <<49, 48, 49, 46, 49>>)

\* C17 (as stated): a line that parses to a command with an Intent writes
\* its feedback in the step that parses it, whether or not event_try_send
\* took the Intent.
C17_FeedbackWithEveryIntent ==
    (ch.step.completed /\ ch.step.sends # <<>>) => ch.step.out # ""

\* C19: the byte given to cli.process_byte is 0x08 when the byte read is
\* 0x7F and the byte read itself otherwise; with no notification in the
\* way, the bytes fed are the bytes that arrived with each 0x7F turned
\* into 0x08.
C19_DeleteRemap ==
    /\ ch.fed # <<>> =>
          /\ ch.step.raw = 127 => ch.step.byte = 8
          /\ ch.step.raw # 127 => ch.step.byte = ch.step.raw
          /\ ch.fed[Len(ch.fed)] = ch.step.byte
    /\ Len(ch.fed) <= Len(ch.arrived)
    /\ \A i \in 1..Len(ch.fed) :
          /\ ch.arrived[i] = 127 => ch.fed[i] = 8
          /\ ch.arrived[i] # 127 => ch.fed[i] = ch.arrived[i]

C19_Witness ==
    /\ ch.step.raw = 127
    /\ ch.step.byte = 8
    /\ ch.fed = <<8, 0, 255, 126, 128, 8>>

C21_NoDeadlock ==
    /\ [](~Halted =>
            \/ ENABLED TaskStart
            \/ ENABLED PollRead
            \/ pc = "poll_notify"
            \/ ENABLED TaskWake
            \/ ENABLED MainNext
            \/ /\ pc = "suspended"
               /\ main.pc = "receive"
               /\ EVENT_CHANNEL = <<>>)
    /\ [](qh.offered < MaxSecond => ENABLED TestSeekUp)
    /\ [](~sender.waiting)
    /\ (main.pc = "publish") ~> (main.pc # "publish")

C21_Witness ==
    /\ main.pc = "publish"
    /\ publisher.waiting
    /\ Len(NOTIFICATION_CHANNEL.queue) = NOTIFY_CAP
    /\ pc = "suspended"

\* the mode intents of the console
ModeIntents == {"RadioFmOn", "RadioAmOn", "RadioOff"}

\* C22: the mode stored in the Prompt/Status Model is FM in every state, and
\* a rendered prompt shows FM; the only mode notification published is the
\* RadioFmOn of startup, the first publish of the program; a mode intent
\* consumed by the control loop starts no driver operation and publishes
\* nothing.
C22_DisplayedModeStaysFm ==
    /\ prompt_status.mode = "FM"
    /\ cli.prompt # <<>> =>
          Contains(cli.prompt, BOLD_BLUE \o RadioModeDebug("FM") \o <<SPACE>>)
    /\ \A i \in 1..Len(bh.sent) :
          bh.sent[i].kind \in ModeNotices
             => i = 1 /\ bh.sent[i].kind = "RadioFmOn"
    /\ \A i \in 1..Len(ch.handled) :
          ch.handled[i].kind \in ModeNotices => ch.handled[i].kind = "RadioFmOn"
    /\ (mh.consumed > 0 /\ main.event.kind \in ModeIntents)
          => /\ main.pc \in {"match", "loop", "receive"}
             /\ mh.driver = "none"
             /\ ~mh.published

\* `mode am` or `mode off` was entered and its intent consumed by the control
\* loop, my_task has handled the three notifications of startup and rendered
\* the prompt, and the stored mode is FM
C22_Witness ==
    /\ mh.consumed > 0
    /\ main.event.kind \in {"RadioAmOn", "RadioOff"}
    /\ main.pc \in {"loop", "receive"}
    /\ Len(ch.handled) = 3
    /\ Len(bh.sent) = 3
    /\ cli.prompt # <<>>
    /\ prompt_status.mode = "FM"

====
